---- MODULE Spec2Model ----
(***************************************************************************)
(* A model of misc.go of keycloak-proxy: the cookie censor, the request    *)
(* dispositions (revokeProxy, accessForbidden, redirectToURL,              *)
(* redirectToAuthorization), the access cookie lifetime and the codec of   *)
(* the `state` query parameter.                                            *)
(*                                                                         *)
(* Go strings are sequences of bytes (0..255).  Four specifications share  *)
(* the variables: Spec (the dispositions of one request), SpecCodec (the   *)
(* state parameter), SpecCookies (filterCookies) and SpecExpiry            *)
(* (getAccessCookieExpiration).                                            *)
(***************************************************************************)
EXTENDS Integers, Sequences, FiniteSets, TLC

VARIABLES
    \* ---- the request handled by the dispositions
    config,      \* r.config: NoRedirects, SkipTokenVerification, ForbiddenPage set or not
    scopes,      \* the heap of RequestScope objects: scopes[p] is AccessDenied of *p
    reqCtx,      \* req.Context().Value(contextScopeName)
    reqURI,      \* req.URL.RequestURI()
    w,           \* the http.ResponseWriter
    log,         \* the messages r.log.Error has written
    pc,          \* "ready", "returned" (a disposition returned its context), "panicked"
    call,        \* what the last disposition did: its name, its WriteHeader calls, ...
    retCtx,      \* the value under contextScopeName of the context the disposition returned
    \* ---- the state parameter codec
    cpc,         \* "idle", "issued", "received", "decoded"
    origURI,     \* the uri generateStateParam was given
    stateTok,    \* the state token in flight
    issued,      \* TRUE when stateTok is what generateStateParam returned
    path,        \* pathFromStateParam's first result
    decErr,      \* pathFromStateParam's error is non-nil
    \* ---- filterCookies
    cookieHdr,   \* the request's Cookie header: a sequence of name=value pairs as written
    jarBefore,   \* req.Cookies() when filterCookies was last called
    filterArg,   \* the filter filterCookies was last called with
    fpc,         \* "building", "filtered"
    filterErr,   \* filterCookies' error is non-nil
    \* ---- getAccessCookieExpiration
    now,         \* the clock, time.Now()
    AccessTokenDuration,   \* r.config.AccessTokenDuration
    refreshArg,  \* the refresh token of the last call
    duration,    \* the result of the last call
    epc          \* "idle", "called"

dispVars   == <<config, scopes, reqCtx, reqURI, w, log, pc, call, retCtx>>
codecVars  == <<cpc, origURI, stateTok, issued, path, decErr>>
cookieVars == <<cookieHdr, jarBefore, filterArg, fpc, filterErr>>
expiryVars == <<now, AccessTokenDuration, refreshArg, duration, epc>>
vars       == <<dispVars, codecVars, cookieVars, expiryVars>>

(***************************************************************************)
(* Bounds                                                                  *)
(***************************************************************************)
MaxUriLen == 2        \* free bytes of a uri given to generateStateParam
MaxTokLen == 3        \* free characters of a state token received from outside
MaxCookies == 3       \* cookies of a request
MaxFilterLen == 2     \* names of a filter
MaxDispositions == 3  \* dispositions applied to one request
MaxTime == 5          \* clock ticks

(***************************************************************************)
(* Byte strings                                                            *)
(***************************************************************************)
\* const PathParamPrefix = ":path:"
PathParamPrefix == <<58, 112, 97, 116, 104, 58>>

\* strings.HasPrefix
HasPrefix(s, prefix) ==
    /\ Len(s) >= Len(prefix)
    /\ SubSeq(s, 1, Len(prefix)) = prefix

\* strings.TrimPrefix: s without the prefix when it has it, s otherwise
TrimPrefix(s, prefix) ==
    IF HasPrefix(s, prefix) THEN SubSeq(s, Len(prefix) + 1, Len(s)) ELSE s

(***************************************************************************)
(* encoding/base64, RawURLEncoding: the URL-safe alphabet, no padding      *)
(***************************************************************************)
\* the alphabet "A-Za-z0-9-_": the character of a 6-bit value
EncodeURL(i) ==
    IF i < 26 THEN 65 + i
    ELSE IF i < 52 THEN 97 + (i - 26)
    ELSE IF i < 62 THEN 48 + (i - 52)
    ELSE IF i = 62 THEN 45
    ELSE 95

\* the decode map: the 6-bit value of a character, 255 for any other byte
DecodeMap(c) ==
    IF c >= 65 /\ c <= 90 THEN c - 65
    ELSE IF c >= 97 /\ c <= 122 THEN c - 97 + 26
    ELSE IF c >= 48 /\ c <= 57 THEN c - 48 + 52
    ELSE IF c = 45 THEN 62
    ELSE IF c = 95 THEN 63
    ELSE 255

\* Encoding.EncodeToString: 3 bytes make 4 characters; a remainder of 1 byte
\* makes 2 characters and a remainder of 2 bytes makes 3 (no padding)
RECURSIVE EncodeToString(_)
EncodeToString(src) ==
    IF Len(src) = 0 THEN <<>>
    ELSE IF Len(src) >= 3 THEN
        LET val == src[1] * 65536 + src[2] * 256 + src[3]
        IN  <<EncodeURL(val \div 262144), EncodeURL((val \div 4096) % 64),
              EncodeURL((val \div 64) % 64), EncodeURL(val % 64)>>
            \o EncodeToString(SubSeq(src, 4, Len(src)))
    ELSE IF Len(src) = 2 THEN
        LET val == src[1] * 65536 + src[2] * 256
        IN  <<EncodeURL(val \div 262144), EncodeURL((val \div 4096) % 64),
              EncodeURL((val \div 64) % 64)>>
    ELSE
        LET val == src[1] * 65536
        IN  <<EncodeURL(val \div 262144), EncodeURL((val \div 4096) % 64)>>

\* the decoder skips '\r' and '\n' wherever they stand
RECURSIVE RemoveNewlines(_)
RemoveNewlines(s) ==
    IF Len(s) = 0 THEN <<>>
    ELSE IF s[1] = 10 \/ s[1] = 13 THEN RemoveNewlines(Tail(s))
    ELSE <<s[1]>> \o RemoveNewlines(Tail(s))

\* the bytes of a sequence of 6-bit values: 4 values make 3 bytes, a last
\* group of 2 makes 1 byte and of 3 makes 2; the unused low bits of a last
\* group are not checked (the encoding is not Strict)
RECURSIVE DecodeQuanta(_)
DecodeQuanta(sx) ==
    IF Len(sx) = 0 THEN <<>>
    ELSE IF Len(sx) >= 4 THEN
        LET val == sx[1] * 262144 + sx[2] * 4096 + sx[3] * 64 + sx[4]
        IN  <<val \div 65536, (val \div 256) % 256, val % 256>>
            \o DecodeQuanta(SubSeq(sx, 5, Len(sx)))
    ELSE IF Len(sx) = 3 THEN
        LET val == sx[1] * 262144 + sx[2] * 4096 + sx[3] * 64
        IN  <<val \div 65536, (val \div 256) % 256>>
    ELSE IF Len(sx) = 2 THEN
        LET val == sx[1] * 262144 + sx[2] * 4096
        IN  <<val \div 65536>>
    ELSE <<>>

\* Encoding.DecodeString: err is a CorruptInputError when a byte other than
\* '\r' and '\n' is outside the alphabet, or when one character is left over
DecodeString(s) ==
    LET t  == RemoveNewlines(s)
        sx == [i \in 1..Len(t) |-> DecodeMap(t[i])]
    IN  IF (\E i \in 1..Len(sx) : sx[i] = 255) \/ Len(sx) % 4 = 1
        THEN [err |-> TRUE, bytes |-> <<>>]
        ELSE [err |-> FALSE, bytes |-> DecodeQuanta(sx)]

(***************************************************************************)
(* The state parameter                                                     *)
(***************************************************************************)
\* generateStateParam: base64 of PathParamPrefix + uri
\* (a variant that leaves the prefix out)
UnprefixedStateParam(uri) == EncodeToString(uri)
generateStateParam(uri) == EncodeToString(PathParamPrefix \o uri)

\* pathFromStateParam: ("", err) when the token does not decode, the decoded
\* bytes without the prefix otherwise
\* (a variant that expects the prefix and fails without it)
StrictPathFromStateParam(state) ==
    LET d == DecodeString(state)
    IN  IF d.err \/ ~HasPrefix(d.bytes, PathParamPrefix)
        THEN [path |-> <<>>, err |-> TRUE]
        ELSE [path |-> TrimPrefix(d.bytes, PathParamPrefix), err |-> FALSE]
pathFromStateParam(state) ==
    LET d == DecodeString(state)
    IN  IF d.err THEN [path |-> <<>>, err |-> TRUE]
        ELSE [path |-> TrimPrefix(d.bytes, PathParamPrefix), err |-> FALSE]

(***************************************************************************)
(* SpecCodec: a state token is issued by generateStateParam or arrives     *)
(* from outside (the `state` query parameter of the callback), and is then *)
(* given to pathFromStateParam.                                            *)
(***************************************************************************)
Seqs(S, n) == UNION {[1..k -> S] : k \in 0..n}

\* '/', ':', '?', and a byte of a multi-byte UTF-8 character
UriBytes == {47, 58, 63, 195}
URIs ==
    {pre \o mid \o post : pre \in {<<>>, PathParamPrefix},
                          mid \in Seqs(UriBytes, MaxUriLen),
                          post \in {<<>>, PathParamPrefix}}

\* 'Q', 'R', '_' of the alphabet; '\n'; '=' (padding, not in the alphabet)
TokChars == {81, 82, 95, 10, 61}
Tokens ==
    {pre \o t : pre \in {<<>>, EncodeToString(PathParamPrefix)},
                t \in Seqs(TokChars, MaxTokLen)}

CodecIdle ==
    /\ cpc = "idle"
    /\ origURI = <<>>
    /\ stateTok = <<>>
    /\ issued = FALSE
    /\ path = <<>>
    /\ decErr = FALSE

GenerateStateParam(uri) ==
    /\ cpc \in {"idle", "decoded"}
    /\ origURI' = uri
    /\ stateTok' = generateStateParam(uri)
    /\ issued' = TRUE
    /\ cpc' = "issued"
    /\ path' = <<>>
    /\ decErr' = FALSE
    /\ UNCHANGED <<dispVars, cookieVars, expiryVars>>

ReceiveState(tok) ==
    /\ cpc \in {"idle", "decoded"}
    /\ origURI' = <<>>
    /\ stateTok' = tok
    /\ issued' = FALSE
    /\ cpc' = "received"
    /\ path' = <<>>
    /\ decErr' = FALSE
    /\ UNCHANGED <<dispVars, cookieVars, expiryVars>>

PathFromStateParam ==
    /\ cpc \in {"issued", "received"}
    /\ LET res == pathFromStateParam(stateTok)
       IN  /\ path' = res.path
           /\ decErr' = res.err
    /\ cpc' = "decoded"
    /\ UNCHANGED <<origURI, stateTok, issued>>
    /\ UNCHANGED <<dispVars, cookieVars, expiryVars>>

(***************************************************************************)
(* The dispositions.  A disposition runs on a machine m: the heap of       *)
(* scopes, the response writer, the log, and what this call has done so    *)
(* far (its WriteHeader calls, the Location headers it set, the context    *)
(* value it returns, whether it panicked).                                 *)
(***************************************************************************)
StatusTemporaryRedirect == 307
StatusUnauthorized == 401
StatusForbidden == 403

\* what req.Context().Value(contextScopeName) may be: nil, a *RequestScope,
\* or a value of another dynamic type
NilValue == [kind |-> "nil", ptr |-> 0]
ScopeValue(p) == [kind |-> "scope", ptr |-> p]
OtherValue == [kind |-> "other", ptr |-> 0]

NoLocation == [set |-> FALSE, url |-> <<>>]
FreshWriter ==
    [wroteHeader |-> FALSE, status |-> 0, location |-> NoLocation,
     sent |-> NoLocation, body |-> <<>>]

\* "?state="
StateQuery == <<63, 115, 116, 97, 116, 101, 61>>
\* "/authorization", and the base "/oauth" of the proxy's own endpoints
authorizationURL == <<47, 97, 117, 116, 104, 111, 114, 105, 122, 97, 116, 105, 111, 110>>
OAuthBase == <<47, 111, 97, 117, 116, 104>>
WithOAuthURI(uri) == OAuthBase \o uri

\* ResponseWriter.WriteHeader: the first call commits the status and the
\* headers set so far; a later call is superfluous and changes nothing
WriteHeader(m, code) ==
    [m EXCEPT !.writes = Append(@, code),
              !.w = IF m.w.wroteHeader THEN m.w
                    ELSE [m.w EXCEPT !.wroteHeader = TRUE, !.status = code,
                                     !.sent = m.w.location]]

\* http.Redirect with a rooted, clean, ASCII url: the Location header is the
\* url as given, then WriteHeader(code) and a short body
Redirect(m, url, code) ==
    LET m1 == [m EXCEPT !.w.location = [set |-> TRUE, url |-> url],
                        !.locs = Append(@, url)]
        m2 == WriteHeader(m1, code)
    IN  [m2 EXCEPT !.w.body = Append(@, "redirect")]

\* revokeProxy: no scope in the context: a new scope, denied; a scope: that
\* scope, marked denied; the unchecked type assertion sc.(*RequestScope)
\* panics on any other value
\* (a variant without line 69: an existing scope is returned as it is)
ForgetfulRevokeProxy(m, ctx) ==
    IF ctx.kind = "nil"
    THEN [m EXCEPT !.scopes = Append(@, TRUE),
                   !.ret = ScopeValue(Len(m.scopes) + 1)]
    ELSE IF ctx.kind = "scope"
    THEN [m EXCEPT !.ret = ctx]
    ELSE [m EXCEPT !.panic = TRUE]
\* (a variant that returns a new scope whatever the context holds)
ReplacingRevokeProxy(m, ctx) ==
    IF ctx.kind = "other"
    THEN [m EXCEPT !.panic = TRUE]
    ELSE [m EXCEPT !.scopes = Append(@, TRUE),
                   !.ret = ScopeValue(Len(m.scopes) + 1)]
revokeProxy(m, ctx) ==
    IF ctx.kind = "nil"
    THEN [m EXCEPT !.scopes = Append(@, TRUE),
                   !.ret = ScopeValue(Len(m.scopes) + 1)]
    ELSE IF ctx.kind = "scope"
    THEN [m EXCEPT !.scopes[ctx.ptr] = TRUE, !.ret = ctx]
    ELSE [m EXCEPT !.panic = TRUE]

\* accessForbidden: 403, the custom page when one is configured (a failure
\* to render it is logged), then revokeProxy
accessForbidden(m, cfg, renderOK, ctx) ==
    LET m1 == WriteHeader(m, StatusForbidden)
        m2 == IF cfg.hasCustomForbiddenPage
              THEN IF renderOK
                   THEN [m1 EXCEPT !.w.body = Append(@, "page")]
                   ELSE [m1 EXCEPT !.log = Append(@, "failed to render the template")]
              ELSE m1
    IN  revokeProxy(m2, ctx)

\* redirectToURL: a 307 to url, then revokeProxy
redirectToURL(m, url, ctx) ==
    revokeProxy(Redirect(m, url, StatusTemporaryRedirect), ctx)

\* the path of a request uri: what stands before the first '?'
RECURSIVE PathOf(_)
PathOf(uri) ==
    IF Len(uri) = 0 \/ uri[1] = 63 THEN <<>> ELSE <<uri[1]>> \o PathOf(Tail(uri))

\* (a variant that encodes req.URL.Path, the uri without its query)
PathOnlyRedirectToAuthorization(m, cfg, uri, ctx) ==
    IF cfg.NoRedirects
    THEN revokeProxy(WriteHeader(m, StatusUnauthorized), ctx)
    ELSE LET authQuery == StateQuery \o generateStateParam(PathOf(uri))
         IN  IF cfg.SkipTokenVerification
             THEN revokeProxy(WriteHeader(m, StatusForbidden), ctx)
             ELSE LET m1 == redirectToURL(m, WithOAuthURI(authorizationURL \o authQuery), ctx)
                  IN  IF m1.panic THEN m1 ELSE revokeProxy(m1, ctx)
\* (a variant without the SkipTokenVerification test of lines 105-109)
UncheckedRedirectToAuthorization(m, cfg, uri, ctx) ==
    IF cfg.NoRedirects
    THEN revokeProxy(WriteHeader(m, StatusUnauthorized), ctx)
    ELSE LET authQuery == StateQuery \o generateStateParam(uri)
             m1 == redirectToURL(m, WithOAuthURI(authorizationURL \o authQuery), ctx)
         IN  IF m1.panic THEN m1 ELSE revokeProxy(m1, ctx)
\* (a variant that tests SkipTokenVerification before NoRedirects)
SkipFirstRedirectToAuthorization(m, cfg, uri, ctx) ==
    IF cfg.SkipTokenVerification
    THEN revokeProxy(WriteHeader(m, StatusForbidden), ctx)
    ELSE IF cfg.NoRedirects
    THEN revokeProxy(WriteHeader(m, StatusUnauthorized), ctx)
    ELSE LET authQuery == StateQuery \o generateStateParam(uri)
             m1 == redirectToURL(m, WithOAuthURI(authorizationURL \o authQuery), ctx)
         IN  IF m1.panic THEN m1 ELSE revokeProxy(m1, ctx)
\* redirectToAuthorization: 401 under NoRedirects; else 403 and a logged
\* error under SkipTokenVerification; else redirectToURL to the authorization
\* endpoint with the state parameter, its context dropped, then revokeProxy
redirectToAuthorization(m, cfg, uri, ctx) ==
    IF cfg.NoRedirects
    THEN revokeProxy(WriteHeader(m, StatusUnauthorized), ctx)
    ELSE LET authQuery == StateQuery \o generateStateParam(uri)
         IN  IF cfg.SkipTokenVerification
             THEN LET m0 == [m EXCEPT !.log = Append(@,
                                 "refusing to redirection to authorization endpoint, skip token verification switched on")]
                  IN  revokeProxy(WriteHeader(m0, StatusForbidden), ctx)
             ELSE LET m1 == redirectToURL(m, WithOAuthURI(authorizationURL \o authQuery), ctx)
                  IN  IF m1.panic THEN m1 ELSE revokeProxy(m1, ctx)

(***************************************************************************)
(* Spec: the dispositions applied to one request.  The caller of a         *)
(* disposition either puts the returned context on the request             *)
(* (req.WithContext) or drops it, as redirectToAuthorization itself drops  *)
(* the context redirectToURL returns.                                      *)
(***************************************************************************)
Configs ==
    [NoRedirects : BOOLEAN, SkipTokenVerification : BOOLEAN,
     hasCustomForbiddenPage : BOOLEAN]

\* "/" and "/secret?x=1"
ReqURIs == {<<47>>, <<47, 115, 101, 99, 114, 101, 116, 63, 120, 61, 49>>}
\* where redirectToURL is sent by its callers: "/" and "/oauth"
RedirectURLs == {<<47>>, OAuthBase}

NoCall ==
    [op |-> "none", writes |-> <<>>, locs |-> <<>>, wroteBefore |-> FALSE,
     bodyBefore |-> <<>>, n |-> 0]

DispIdle ==
    /\ config = [NoRedirects |-> FALSE, SkipTokenVerification |-> FALSE,
                 hasCustomForbiddenPage |-> FALSE]
    /\ scopes = <<>>
    /\ reqCtx = NilValue
    /\ reqURI = <<47>>
    /\ w = FreshWriter
    /\ log = <<>>
    /\ pc = "ready"
    /\ call = NoCall
    /\ retCtx = NilValue

DispInit ==
    /\ config \in Configs
    /\ \/ scopes = <<>> /\ reqCtx \in {NilValue, OtherValue}
       \/ scopes \in {<<FALSE>>, <<TRUE>>} /\ reqCtx = ScopeValue(1)
    /\ reqURI \in ReqURIs
    /\ w = FreshWriter
    /\ log = <<>>
    /\ pc = "ready"
    /\ call = NoCall
    /\ retCtx = NilValue

Machine ==
    [scopes |-> scopes, w |-> w, log |-> log, writes |-> <<>>, locs |-> <<>>,
     ret |-> NilValue, panic |-> FALSE]

\* the state after a disposition that ended in machine m
Returns(op, m) ==
    /\ scopes' = m.scopes
    /\ w' = m.w
    /\ log' = m.log
    /\ retCtx' = m.ret
    /\ pc' = IF m.panic THEN "panicked" ELSE "returned"
    /\ call' = [op |-> op, writes |-> m.writes, locs |-> m.locs,
                wroteBefore |-> w.wroteHeader, bodyBefore |-> w.body,
                n |-> call.n + 1]
    /\ UNCHANGED <<config, reqCtx, reqURI>>
    /\ UNCHANGED <<codecVars, cookieVars, expiryVars>>

RevokeProxy ==
    /\ pc = "ready"
    /\ call.n < MaxDispositions
    /\ Returns("revokeProxy", revokeProxy(Machine, reqCtx))

AccessForbidden(renderOK) ==
    /\ pc = "ready"
    /\ call.n < MaxDispositions
    /\ Returns("accessForbidden", accessForbidden(Machine, config, renderOK, reqCtx))

RedirectToURL(url) ==
    /\ pc = "ready"
    /\ call.n < MaxDispositions
    /\ Returns("redirectToURL", redirectToURL(Machine, url, reqCtx))

RedirectToAuthorization ==
    /\ pc = "ready"
    /\ call.n < MaxDispositions
    /\ Returns("redirectToAuthorization",
               redirectToAuthorization(Machine, config, reqURI, reqCtx))

\* the caller goes on with req.WithContext(the returned context)
AdoptContext ==
    /\ pc = "returned"
    /\ reqCtx' = retCtx
    /\ pc' = "ready"
    /\ UNCHANGED <<config, scopes, reqURI, w, log, call, retCtx>>
    /\ UNCHANGED <<codecVars, cookieVars, expiryVars>>

\* the caller drops the returned context
DropContext ==
    /\ pc = "returned"
    /\ pc' = "ready"
    /\ UNCHANGED <<config, scopes, reqCtx, reqURI, w, log, call, retCtx>>
    /\ UNCHANGED <<codecVars, cookieVars, expiryVars>>

(***************************************************************************)
(* filterCookies.  The Cookie header is a sequence of name=value pairs; a  *)
(* value is written bare or in double quotes.                              *)
(***************************************************************************)
\* "censored"
Censored == <<99, 101, 110, 115, 111, 114, 101, 100>>

\* Request.Cookies: the pairs of the header in order, a quoted value
\* without its quotes
Cookies(hdr) == [i \in 1..Len(hdr) |-> [Name |-> hdr[i].name, Value |-> hdr[i].text]]

\* Request.AddCookie: appends name=value to the header; a value holding a
\* space or a comma is written in double quotes
AddCookie(hdr, c) ==
    Append(hdr, [name |-> c.Name,
                 quoted |-> \E i \in 1..Len(c.Value) : c.Value[i] \in {32, 44},
                 text |-> c.Value])

\* lines 44-50: the first name of the filter equal to the cookie's adds the
\* censored cookie and ends the loop
RECURSIVE MatchFilter(_, _, _)
MatchFilter(x, filter, hdr) ==
    IF Len(filter) = 0 THEN [hdr |-> hdr, found |-> FALSE]
    ELSE IF x.Name = Head(filter)
    THEN [hdr |-> AddCookie(hdr, [Name |-> x.Name, Value |-> Censored]), found |-> TRUE]
    ELSE MatchFilter(x, Tail(filter), hdr)

\* lines 41-54
RECURSIVE FilterLoop(_, _, _)
FilterLoop(cookies, filter, hdr) ==
    IF Len(cookies) = 0 THEN hdr
    ELSE LET x == Head(cookies)
             r == MatchFilter(x, filter, hdr)
         IN  FilterLoop(Tail(cookies), filter,
                        IF r.found THEN r.hdr ELSE AddCookie(r.hdr, x))

\* the loop without its break: every equal name of the filter adds a cookie
RECURSIVE MatchFilterNoBreak(_, _, _)
MatchFilterNoBreak(x, filter, hdr) ==
    IF Len(filter) = 0 THEN [hdr |-> hdr, found |-> FALSE]
    ELSE LET r == MatchFilterNoBreak(x, Tail(filter),
                      IF x.Name = Head(filter)
                      THEN AddCookie(hdr, [Name |-> x.Name, Value |-> Censored])
                      ELSE hdr)
         IN  [hdr |-> r.hdr, found |-> r.found \/ x.Name = Head(filter)]

RECURSIVE FilterLoopNoBreak(_, _, _)
FilterLoopNoBreak(cookies, filter, hdr) ==
    IF Len(cookies) = 0 THEN hdr
    ELSE LET x == Head(cookies)
             r == MatchFilterNoBreak(x, filter, hdr)
         IN  FilterLoopNoBreak(Tail(cookies), filter,
                               IF r.found THEN r.hdr ELSE AddCookie(r.hdr, x))

\* (a variant of filterCookies with that loop)
NoBreakFilterCookies(hdr, filter) ==
    [hdr |-> FilterLoopNoBreak(Cookies(hdr), filter, <<>>), err |-> FALSE]
\* filterCookies: the header is emptied and rebuilt from the cookies read
filterCookies(hdr, filter) ==
    [hdr |-> FilterLoop(Cookies(hdr), filter, <<>>), err |-> FALSE]

CookieNames == {"a", "b"}
FilterNames == {"a", "c"}
\* the values as a client writes them: 1, "x y", x y, censored
RawValues ==
    {[quoted |-> FALSE, text |-> <<49>>],
     [quoted |-> TRUE, text |-> <<120, 32, 121>>],
     [quoted |-> FALSE, text |-> <<120, 32, 121>>],
     [quoted |-> FALSE, text |-> Censored]}

CookieIdle ==
    /\ cookieHdr = <<>>
    /\ jarBefore = <<>>
    /\ filterArg = <<>>
    /\ fpc = "building"
    /\ filterErr = FALSE

\* the client's request arrives with one more cookie
ClientAddsCookie(name, raw) ==
    /\ fpc = "building"
    /\ Len(cookieHdr) < MaxCookies
    /\ cookieHdr' = Append(cookieHdr, [name |-> name, quoted |-> raw.quoted, text |-> raw.text])
    /\ UNCHANGED <<jarBefore, filterArg, fpc, filterErr>>
    /\ UNCHANGED <<dispVars, codecVars, expiryVars>>

FilterCookies(filter) ==
    /\ LET res == filterCookies(cookieHdr, filter)
       IN  /\ cookieHdr' = res.hdr
           /\ filterErr' = res.err
    /\ jarBefore' = Cookies(cookieHdr)
    /\ filterArg' = filter
    /\ fpc' = "filtered"
    /\ UNCHANGED <<dispVars, codecVars, expiryVars>>

(***************************************************************************)
(* getAccessCookieExpiration.  Time is counted in ticks.                   *)
(***************************************************************************)
\* parseToken: an error for the empty and for a malformed string, the
\* identity (its ExpiresAt) of a token otherwise
EmptyToken == [kind |-> "empty", exp |-> 0]
MalformedToken == [kind |-> "malformed", exp |-> 0]
parseToken(refresh) == [err |-> refresh.kind # "jwt", ExpiresAt |-> refresh.exp]

\* time.Until(t) at time t0
Until(t, t0) == t - t0

\* (a variant that falls back to the default for an expired refresh token)
ClampedAccessCookieExpiration(dflt, t0, refresh) ==
    LET p == parseToken(refresh)
    IN  IF ~p.err /\ Until(p.ExpiresAt, t0) > 0 THEN Until(p.ExpiresAt, t0) ELSE dflt
\* getAccessCookieExpiration: the configured duration, or the time until the
\* refresh token expires when the token parses
getAccessCookieExpiration(dflt, t0, refresh) ==
    LET p == parseToken(refresh)
    IN  IF ~p.err THEN Until(p.ExpiresAt, t0) ELSE dflt

RefreshTokens ==
    {EmptyToken, MalformedToken} \cup {[kind |-> "jwt", exp |-> e] : e \in 0..(MaxTime + 3)}

ExpiryIdle ==
    /\ now = 0
    /\ AccessTokenDuration = 2
    /\ refreshArg = [token |-> EmptyToken, at |-> 0]
    /\ duration = 0
    /\ epc = "idle"

ExpiryInit ==
    /\ now = 0
    /\ AccessTokenDuration \in {2, 30}
    /\ refreshArg = [token |-> EmptyToken, at |-> 0]
    /\ duration = 0
    /\ epc = "idle"

Tick ==
    /\ now < MaxTime
    /\ now' = now + 1
    /\ UNCHANGED <<AccessTokenDuration, refreshArg, duration, epc>>
    /\ UNCHANGED <<dispVars, codecVars, cookieVars>>

GetAccessCookieExpiration(refresh) ==
    /\ duration' = getAccessCookieExpiration(AccessTokenDuration, now, refresh)
    /\ refreshArg' = [token |-> refresh, at |-> now]
    /\ epc' = "called"
    /\ UNCHANGED <<now, AccessTokenDuration>>
    /\ UNCHANGED <<dispVars, codecVars, cookieVars>>

(***************************************************************************)
(* The specifications                                                      *)
(***************************************************************************)
Init == DispInit /\ CodecIdle /\ CookieIdle /\ ExpiryIdle
Next ==
    \/ RevokeProxy
    \/ \E renderOK \in BOOLEAN : AccessForbidden(renderOK)
    \/ \E url \in RedirectURLs : RedirectToURL(url)
    \/ RedirectToAuthorization
    \/ AdoptContext
    \/ DropContext
Spec == Init /\ [][Next]_vars

InitCodec == DispIdle /\ CodecIdle /\ CookieIdle /\ ExpiryIdle
NextCodec ==
    \/ \E uri \in URIs : GenerateStateParam(uri)
    \/ \E tok \in Tokens : ReceiveState(tok)
    \/ PathFromStateParam
SpecCodec == InitCodec /\ [][NextCodec]_vars

InitCookies == DispIdle /\ CodecIdle /\ CookieIdle /\ ExpiryIdle
NextCookies ==
    \/ \E name \in CookieNames, raw \in RawValues : ClientAddsCookie(name, raw)
    \/ \E filter \in Seqs(FilterNames, MaxFilterLen) : FilterCookies(filter)
SpecCookies == InitCookies /\ [][NextCookies]_vars

InitExpiry == DispIdle /\ CodecIdle /\ CookieIdle /\ ExpiryInit
NextExpiry ==
    \/ Tick
    \/ \E refresh \in RefreshTokens : GetAccessCookieExpiration(refresh)
SpecExpiry == InitExpiry /\ [][NextExpiry]_vars

(***************************************************************************)
(* Properties of the dispositions (Spec)                                   *)
(***************************************************************************)
Dispositions == {"accessForbidden", "redirectToURL", "redirectToAuthorization"}

\* the returned context holds a scope that is marked denied
ReturnedDenied ==
    /\ retCtx.kind = "scope"
    /\ retCtx.ptr \in DOMAIN scopes
    /\ scopes[retCtx.ptr]

\* the Location the authorization redirect must carry for the request
AuthorizationLocation ==
    OAuthBase \o authorizationURL \o StateQuery \o generateStateParam(reqURI)

\* C1: after accessForbidden, redirectToURL or redirectToAuthorization, under
\* every configuration, on a request whose context holds no scope or a
\* RequestScope, the returned context holds a RequestScope whose AccessDenied
\* is true (the call ends otherwise only when the context held a value that is
\* no RequestScope).
C1_EveryDispositionDenies ==
    call.op \in Dispositions =>
        IF pc = "panicked" THEN reqCtx.kind = "other" ELSE ReturnedDenied

C1_Witness ==
    /\ pc = "returned"
    /\ call.op = "accessForbidden"
    /\ config.hasCustomForbiddenPage
    /\ reqCtx.kind = "scope"
    /\ call.n = 1
    /\ ReturnedDenied

\* C2 as stated: with SkipTokenVerification, redirectToAuthorization answers
\* 403 under every setting of the other options (NoRedirects included), writes
\* no redirect, and returns a denied scope.
C2_SkipAlways403 ==
    (pc = "returned" /\ call.op = "redirectToAuthorization"
        /\ config.SkipTokenVerification) =>
        /\ call.writes = <<StatusForbidden>>
        /\ ~call.wroteBefore => w.status = StatusForbidden
        /\ call.locs = <<>>
        /\ ReturnedDenied

\* C2 amended: with SkipTokenVerification, redirectToAuthorization writes one
\* status, 403 when NoRedirects is false and 401 when NoRedirects is true; in
\* both cases it sets no Location header, writes no 307, and returns a denied
\* scope.
C2_SkipFailsClosed ==
    (pc = "returned" /\ call.op = "redirectToAuthorization"
        /\ config.SkipTokenVerification) =>
        LET code == IF config.NoRedirects THEN StatusUnauthorized ELSE StatusForbidden
        IN  /\ call.writes = <<code>>
            /\ ~call.wroteBefore => (w.status = code /\ ~w.sent.set)
            /\ call.locs = <<>>
            /\ w.body = call.bodyBefore
            /\ ReturnedDenied

C2_Witness ==
    /\ pc = "returned"
    /\ call.op = "redirectToAuthorization"
    /\ config.SkipTokenVerification
    /\ ~config.NoRedirects
    /\ ~call.wroteBefore
    /\ w.status = StatusForbidden

\* C3: with NoRedirects, redirectToAuthorization answers 401 whatever
\* SkipTokenVerification is: it writes that one status, sets no Location
\* header, writes no redirect body, and returns a denied scope.
C3_NoRedirects401 ==
    (pc = "returned" /\ call.op = "redirectToAuthorization" /\ config.NoRedirects) =>
        /\ call.writes = <<StatusUnauthorized>>
        /\ ~call.wroteBefore => (w.status = StatusUnauthorized /\ ~w.sent.set)
        /\ call.locs = <<>>
        /\ w.body = call.bodyBefore
        /\ ReturnedDenied

C3_Witness ==
    /\ pc = "returned"
    /\ call.op = "redirectToAuthorization"
    /\ config.NoRedirects
    /\ config.SkipTokenVerification
    /\ ~call.wroteBefore
    /\ w.status = StatusUnauthorized

\* C4: with NoRedirects and SkipTokenVerification both false,
\* redirectToAuthorization calls WriteHeader once, with 307, and sets Location
\* once, to the authorization endpoint followed by ?state= and
\* generateStateParam of the full request URI; on a response not yet committed
\* that is the status and the Location sent.
C4_AuthorizationRedirect ==
    (pc = "returned" /\ call.op = "redirectToAuthorization"
        /\ ~config.NoRedirects /\ ~config.SkipTokenVerification) =>
        /\ call.writes = <<StatusTemporaryRedirect>>
        /\ call.locs = <<AuthorizationLocation>>
        /\ w.location = [set |-> TRUE, url |-> AuthorizationLocation]
        /\ ~call.wroteBefore =>
              /\ w.status = StatusTemporaryRedirect
              /\ w.sent = [set |-> TRUE, url |-> AuthorizationLocation]

\* the request for /secret?x=1 without a scope: both runs of revokeProxy have
\* made a scope
C4_Witness ==
    /\ pc = "returned"
    /\ call.op = "redirectToAuthorization"
    /\ ~config.NoRedirects
    /\ ~config.SkipTokenVerification
    /\ reqURI = <<47, 115, 101, 99, 114, 101, 116, 63, 120, 61, 49>>
    /\ reqCtx = NilValue
    /\ Len(scopes) = 2
    /\ w.status = StatusTemporaryRedirect

\* C5 as stated: revokeProxy, and so every disposition, completes without a
\* panic whatever the context holds under contextScopeName (nothing, a
\* RequestScope, a value of another shape), and returns a denied scope.
C5_NeverPanics ==
    call.op # "none" => (pc # "panicked" /\ ReturnedDenied)

\* C10: over any sequence of dispositions on one request, a scope whose
\* AccessDenied is true keeps it true, and a disposition called on a request
\* whose context holds a scope returns that same scope, marked, and no new one.
C10_DenialMonotonicInPlace ==
    [][ /\ \A p \in DOMAIN scopes : scopes[p] => (p \in DOMAIN scopes' /\ scopes'[p])
        /\ (pc' = "returned" /\ reqCtx'.kind = "scope") =>
              (retCtx' = reqCtx' /\ scopes'[reqCtx'.ptr]) ]_vars

C10_Witness ==
    /\ pc = "returned"
    /\ call.n >= 2
    /\ reqCtx.kind = "scope"
    /\ retCtx = reqCtx
    /\ scopes[reqCtx.ptr]
    /\ call.op = "redirectToAuthorization"

(***************************************************************************)
(* Properties of the state parameter (SpecCodec)                           *)
(***************************************************************************)
\* a character of the URL-safe alphabet: A-Z, a-z, 0-9, '-', '_'
InAlphabet(c) ==
    \/ c \in 65..90
    \/ c \in 97..122
    \/ c \in 48..57
    \/ c \in {45, 95}

\* unpadded URL-safe base64 text: alphabet characters only, and no length
\* that leaves a single character over
ValidRawURL(t) ==
    /\ \A i \in 1..Len(t) : InAlphabet(t[i])
    /\ Len(t) % 4 # 1

IsNewline(c) == c \in {10, 13}
NotNewline(c) == ~IsNewline(c)

\* C6: pathFromStateParam(generateStateParam(p)) is p, with a nil error, for
\* every uri p: empty, with ':path:' at its start or its end, with query
\* characters, with bytes above 127.
C6_RoundTrip ==
    (cpc = "decoded" /\ issued) => (path = origURI /\ ~decErr)

C6_Witness ==
    /\ cpc = "decoded"
    /\ issued
    /\ HasPrefix(origURI, PathParamPrefix)
    /\ Len(origURI) > Len(PathParamPrefix)
    /\ path = origURI

InFilter(name, filter) == \E i \in 1..Len(filter) : filter[i] = name

\* C8: after filterCookies the request carries as many cookies as before, in
\* the same order, each with its name, and with the value 'censored' when its
\* name is in the filter and its own value otherwise; no error is returned.
C8_CookiesCensoredInPlace ==
    fpc = "filtered" =>
        LET after == Cookies(cookieHdr)
        IN  /\ ~filterErr
            /\ Len(after) = Len(jarBefore)
            /\ \A i \in 1..Len(jarBefore) :
                  /\ after[i].Name = jarBefore[i].Name
                  /\ after[i].Value =
                        IF InFilter(jarBefore[i].Name, filterArg)
                        THEN Censored ELSE jarBefore[i].Value

\* three cookies, two of one name, the filter naming that name twice
C8_Witness ==
    /\ fpc = "filtered"
    /\ Len(jarBefore) = 3
    /\ jarBefore[1].Name = "a"
    /\ jarBefore[2].Name = "b"
    /\ jarBefore[3].Name = "a"
    /\ jarBefore[1].Value # Censored
    /\ filterArg = <<"a", "a">>
    /\ Cookies(cookieHdr)[1].Value = Censored
    /\ Cookies(cookieHdr)[2].Value = jarBefore[2].Value

(***************************************************************************)
(* Properties of getAccessCookieExpiration (SpecExpiry)                    *)
(***************************************************************************)
\* C9: getAccessCookieExpiration returns the configured AccessTokenDuration
\* when the refresh token does not parse (empty or malformed), and ExpiresAt
\* minus the time of the call when it parses: negative for an expired token,
\* and whatever the configured duration is.
C9_ExpirationOfRefreshOrDefault ==
    epc = "called" =>
        duration = IF refreshArg.token.kind = "jwt"
                   THEN refreshArg.token.exp - refreshArg.at
                   ELSE AccessTokenDuration

\* an expired refresh token: a negative duration
C9_Witness ==
    /\ epc = "called"
    /\ refreshArg.token.kind = "jwt"
    /\ refreshArg.token.exp < refreshArg.at
    /\ duration < 0

====
